---- MODULE Spec2Model ----
(***************************************************************************)
(* The XML-RPC client of dxr_client (reqwest_support.rs): one Client, its  *)
(* call pipeline over the HTTP and the local-socket (SCGI) transport,      *)
(* response resolution, and the multicall decoder.                         *)
(*                                                                         *)
(* A text is a sequence of lexical symbols.  The five characters of the    *)
(* prologue marker "<?xml" are separate symbols, so that a frame boundary  *)
(* can fall inside the marker; every other tag and every text node is one  *)
(* symbol.  The symbol "\\xFF" is a byte that is not valid UTF-8.           *)
(***************************************************************************)
EXTENDS Integers, Sequences, FiniteSets, TLC

\* ------------------------------------------------------------------ bounds
\* Most reads that yield data or "not ready" in one exchange; after them
\* the peer ends the exchange with a zero-length frame or a read error.
MaxReads == 3
\* Most elements of a multicall response array.
MaxElems == 2
\* Most methods called on one ClientBuilder before build.
MaxOps == 3
\* Most members of a struct the value codec is given.
MaxMembers == 2
\* Most reads that yield data or "not ready" in one of two concurrent calls.
MaxConcReads == 2
\* Most parameters of a call that is made into a local-socket request.
MaxParams == 2

\* ------------------------------------------------------------------ values
I4(n) == [t |-> "i4", i |-> n]
Str(s) == [t |-> "string", s |-> s]
Struct(ms) == [t |-> "struct", members |-> ms]
Array(es) == [t |-> "array", elems |-> es]
Boolean(b) == [t |-> "boolean", b |-> b]
\* a double, held in tenths: Double(15) is 1.5
Double(d) == [t |-> "double", d |-> d]
\* binary data, held as the text the bytes spell
Base64(bytes) == [t |-> "base64", bytes |-> bytes]
\* a timestamp: seconds since the epoch and nanoseconds within the second
DateTime(secs, nanos) == [t |-> "dateTime", secs |-> secs, nanos |-> nanos]
Member(n, v) == [name |-> n, value |-> v]
\* the placeholder of a field that holds no value
NoValue == [t |-> "none"]

\* The 32-bit integers the model writes and reads, with their decimal text.
I4Texts == << <<-12, "-12">>, <<0, "0">>, <<1, "1">>, <<2, "2">>, <<42, "42">> >>

IntToText(n) ==
    LET k == CHOOSE j \in 1..Len(I4Texts) : I4Texts[j][1] = n IN I4Texts[k][2]

IsIntText(s) == \E j \in 1..Len(I4Texts) : I4Texts[j][2] = s

TextToInt(s) ==
    LET k == CHOOSE j \in 1..Len(I4Texts) : I4Texts[j][2] = s IN I4Texts[k][1]

\* The doubles (in tenths), byte strings and timestamps (seconds) the model
\* writes and reads, with their text: Display of f64, standard base64,
\* and XML_RPC_DATE_FORMAT.
DoubleTexts == << <<15, "1.5">>, <<-5, "-0.5">>, <<20, "2">>, <<0, "0">> >>
Base64Texts ==
    << <<"", "">>, <<"hi", "aGk=">>,
       <<"you can't read this!", "eW91IGNhbid0IHJlYWQgdGhpcyE=">> >>
DateTexts == << <<0, "19700101T00:00:00">>, <<900684535, "19980717T14:08:55">> >>

ToText(table, x) ==
    LET k == CHOOSE j \in 1..Len(table) : table[j][1] = x IN table[k][2]
InTable(table, s) == \E j \in 1..Len(table) : table[j][2] = s
FromText(table, s) ==
    LET k == CHOOSE j \in 1..Len(table) : table[j][2] = s IN table[k][1]

\* ------------------------------------------------------------------- texts
Marker == <<"<", "?", "x", "m", "l">>
\* the rest of the XML declaration after the marker:  version="1.0"?>
PrologueRest == " version=\"1.0\"?>"
Prologue == Marker \o <<PrologueRest>>

Tags == {"<value>", "</value>", "<i4>", "</i4>", "<int>", "</int>",
         "<string>", "</string>", "<struct/>", "<struct>", "</struct>",
         "<boolean>", "</boolean>", "<double>", "</double>",
         "<base64>", "</base64>", "<dateTime.iso8601>", "</dateTime.iso8601>",
         "<member>", "</member>", "<name>", "</name>",
         "<array>", "</array>", "<data/>", "<data>", "</data>",
         "<methodResponse>", "</methodResponse>", "<fault>", "</fault>",
         "<params>", "</params>", "<param>", "</param>",
         "<", "?", "x", "m", "l", PrologueRest, "\\xFF"}

IsText(tok) == tok \notin Tags

Tail2(s) == SubSeq(s, 3, Len(s))
DropN(s, n) == SubSeq(s, n + 1, Len(s))
StartsWith(s, p) == Len(s) >= Len(p) /\ SubSeq(s, 1, Len(p)) = p

\* ----------------------------------------------------------- value encoder
RECURSIVE EncValue(_)
RECURSIVE EncMembers(_)
RECURSIVE EncValues(_)

EncMembers(ms) ==
    IF ms = <<>> THEN <<>>
    ELSE <<"<member>", "<name>", Head(ms).name, "</name>">>
         \o EncValue(Head(ms).value) \o <<"</member>">> \o EncMembers(Tail(ms))

EncValues(es) ==
    IF es = <<>> THEN <<>> ELSE EncValue(Head(es)) \o EncValues(Tail(es))

EncType(v) ==
    CASE v.t = "i4" -> <<"<i4>", IntToText(v.i), "</i4>">>
      [] v.t = "string" ->
            IF v.s = "" THEN <<"<string>", "</string>">>
            ELSE <<"<string>", v.s, "</string>">>
      [] v.t = "boolean" -> <<"<boolean>", IF v.b THEN "1" ELSE "0", "</boolean>">>
      [] v.t = "double" -> <<"<double>", ToText(DoubleTexts, v.d), "</double>">>
      [] v.t = "base64" ->
            IF v.bytes = "" THEN <<"<base64>", "</base64>">>
            ELSE <<"<base64>", ToText(Base64Texts, v.bytes), "</base64>">>
      [] v.t = "dateTime" ->
            <<"<dateTime.iso8601>", ToText(DateTexts, v.secs), "</dateTime.iso8601>">>
      [] v.t = "struct" ->
            IF v.members = <<>> THEN <<"<struct/>">>
            ELSE <<"<struct>">> \o EncMembers(v.members) \o <<"</struct>">>
      [] v.t = "array" ->
            IF v.elems = <<>> THEN <<"<array>", "<data/>", "</array>">>
            ELSE <<"<array>", "<data>">> \o EncValues(v.elems)
                 \o <<"</data>", "</array>">>

EncValue(v) == <<"<value>">> \o EncType(v) \o <<"</value>">>

\* ------------------------------------------------------------- XML decoder
\* The decoder reads a text symbol by symbol and keeps the stack of the
\* elements that are open.  A frame is one open element: n counts the parts
\* it has received, the other fields hold them.
Frame(tag) ==
    [tag |-> tag, n |-> 0, text |-> "", name |-> "", val |-> NoValue,
     vals |-> <<>>, members |-> <<>>, faults |-> <<>>, params |-> <<>>]

\* start tag and end tag of every element
Elements ==
    << <<"<value>", "</value>">>, <<"<i4>", "</i4>">>, <<"<int>", "</int>">>,
       <<"<string>", "</string>">>, <<"<struct>", "</struct>">>,
       <<"<boolean>", "</boolean>">>, <<"<double>", "</double>">>,
       <<"<base64>", "</base64>">>,
       <<"<dateTime.iso8601>", "</dateTime.iso8601>">>,
       <<"<member>", "</member>">>, <<"<name>", "</name>">>,
       <<"<array>", "</array>">>, <<"<data>", "</data>">>,
       <<"<methodResponse>", "</methodResponse>">>, <<"<fault>", "</fault>">>,
       <<"<params>", "</params>">>, <<"<param>", "</param>">> >>
OpenTags == { Elements[j][1] : j \in 1..Len(Elements) }
CloseTags == { Elements[j][2] : j \in 1..Len(Elements) }
EmptyTags == {"<struct/>", "<data/>"}
TypeTags == {"<i4>", "<int>", "<string>", "<struct>", "<array>", "<boolean>",
             "<double>", "<base64>", "<dateTime.iso8601>"}
TextTags == {"<i4>", "<int>", "<string>", "<name>", "<boolean>", "<double>",
             "<base64>", "<dateTime.iso8601>"}
Closes(close, open) == \E j \in 1..Len(Elements) : Elements[j] = <<open, close>>

\* the element tok starts may stand where the open element top is
CanOpen(top, tok) ==
    CASE top.tag = "" -> TRUE
      [] tok = "<value>" ->
            \/ top.tag = "<data>"
            \/ top.tag \in {"<fault>", "<param>"} /\ top.n = 0
            \/ top.tag = "<member>" /\ top.n = 1
      [] tok \in TypeTags \cup {"<struct/>"} -> top.tag = "<value>" /\ top.n = 0
      [] tok = "<member>" -> top.tag = "<struct>"
      [] tok = "<name>" -> top.tag = "<member>" /\ top.n = 0
      [] tok \in {"<data>", "<data/>"} -> top.tag = "<array>" /\ top.n = 0
      [] tok \in {"<fault>", "<params>"} -> top.tag = "<methodResponse>"
      [] tok = "<param>" -> top.tag = "<params>"
      [] OTHER -> FALSE

\* Complete with a struct or a data element that must have a child
CompleteNonEmpty(f) ==
    CASE f.tag \in {"<i4>", "<int>"} -> f.n = 1 /\ IsIntText(f.text)
      [] f.tag = "<boolean>" -> f.n = 1 /\ f.text \in {"1", "0"}
      [] f.tag = "<double>" -> f.n = 1 /\ InTable(DoubleTexts, f.text)
      [] f.tag = "<base64>" -> InTable(Base64Texts, f.text)
      [] f.tag = "<dateTime.iso8601>" -> f.n = 1 /\ InTable(DateTexts, f.text)
      [] f.tag \in {"<value>", "<array>", "<fault>", "<param>"} -> f.n = 1
      [] f.tag = "<member>" -> f.n = 2
      [] f.tag = "<struct>" -> f.members # <<>>
      [] f.tag = "<data>" -> f.vals # <<>>
      [] OTHER -> TRUE

\* the open element f has all its parts when its end tag comes
Complete(f) ==
    CASE f.tag \in {"<i4>", "<int>"} -> f.n = 1 /\ IsIntText(f.text)
      [] f.tag = "<boolean>" -> f.n = 1 /\ f.text \in {"1", "0"}
      [] f.tag = "<double>" -> f.n = 1 /\ InTable(DoubleTexts, f.text)
      [] f.tag = "<base64>" -> InTable(Base64Texts, f.text)
      [] f.tag = "<dateTime.iso8601>" -> f.n = 1 /\ InTable(DateTexts, f.text)
      [] f.tag \in {"<value>", "<array>", "<fault>", "<param>"} -> f.n = 1
      [] f.tag = "<member>" -> f.n = 2
      [] OTHER -> TRUE

\* the value a closed element stands for
ValueOf(f) ==
    CASE f.tag \in {"<i4>", "<int>"} -> I4(TextToInt(f.text))
      [] f.tag = "<string>" -> Str(f.text)
      [] f.tag = "<boolean>" -> Boolean(f.text = "1")
      [] f.tag = "<double>" -> Double(FromText(DoubleTexts, f.text))
      [] f.tag = "<base64>" -> Base64(FromText(Base64Texts, f.text))
      [] f.tag = "<dateTime.iso8601>" -> DateTime(FromText(DateTexts, f.text), 0)
      [] f.tag = "<struct>" -> Struct(f.members)
      [] f.tag = "<data>" -> Array(f.vals)
      [] OTHER -> f.val

\* Give with a member replacing the earlier members of its name
GiveLastWins(parent, child) ==
    CASE child.tag \in TypeTags \cup {"<data>"} ->
            [parent EXCEPT !.val = child.val, !.n = 1]
      [] child.tag = "<value>" ->
            IF parent.tag = "<data>" THEN [parent EXCEPT !.vals = Append(@, child.val)]
            ELSE [parent EXCEPT !.val = child.val, !.n = @ + 1]
      [] child.tag = "<name>" -> [parent EXCEPT !.name = child.text, !.n = 1]
      [] child.tag = "<member>" ->
            [parent EXCEPT !.members =
                Append(SelectSeq(@, LAMBDA m : m.name # child.name),
                       Member(child.name, child.val))]
      [] child.tag = "<fault>" -> [parent EXCEPT !.faults = Append(@, child.val)]
      [] child.tag = "<param>" -> [parent EXCEPT !.vals = Append(@, child.val)]
      [] child.tag = "<params>" -> [parent EXCEPT !.params = Append(@, child.vals)]
      [] OTHER -> parent

\* the open element parent receives its closed child
Give(parent, child) ==
    CASE child.tag \in TypeTags \cup {"<data>"} ->
            [parent EXCEPT !.val = child.val, !.n = 1]
      [] child.tag = "<value>" ->
            IF parent.tag = "<data>" THEN [parent EXCEPT !.vals = Append(@, child.val)]
            ELSE [parent EXCEPT !.val = child.val, !.n = @ + 1]
      [] child.tag = "<name>" -> [parent EXCEPT !.name = child.text, !.n = 1]
      [] child.tag = "<member>" ->
            [parent EXCEPT !.members = Append(@, Member(child.name, child.val))]
      [] child.tag = "<fault>" -> [parent EXCEPT !.faults = Append(@, child.val)]
      [] child.tag = "<param>" -> [parent EXCEPT !.vals = Append(@, child.val)]
      [] child.tag = "<params>" -> [parent EXCEPT !.params = Append(@, child.vals)]
      [] OTHER -> parent

\* decoder state: ok until a symbol does not fit, done when the root element
\* is closed, root the closed root element
DecoderStart == [ok |-> TRUE, done |-> FALSE, stack |-> <<>>, root |-> Frame("")]
DecoderFailed == [ok |-> FALSE, done |-> FALSE, stack |-> <<>>, root |-> Frame("")]

\* the element child is closed: it goes to its parent, or is the root
CloseElement(ps, below, child) ==
    LET item == [child EXCEPT !.val = ValueOf(child)] IN
    IF below = <<>> THEN [ps EXCEPT !.done = TRUE, !.stack = <<>>, !.root = item]
    ELSE [ps EXCEPT !.stack = [below EXCEPT ![Len(below)] = Give(@, item)]]

DecoderStep(ps, tok) ==
    LET depth == Len(ps.stack)
        top == IF depth = 0 THEN Frame("") ELSE ps.stack[depth] IN
    IF ~ps.ok \/ ps.done THEN DecoderFailed
    ELSE IF tok \in OpenTags
         THEN IF CanOpen(top, tok) THEN [ps EXCEPT !.stack = Append(@, Frame(tok))]
              ELSE DecoderFailed
    ELSE IF tok \in EmptyTags
         THEN IF CanOpen(top, tok)
              THEN CloseElement(ps, ps.stack,
                                Frame(IF tok = "<struct/>" THEN "<struct>" ELSE "<data>"))
              ELSE DecoderFailed
    ELSE IF tok \in CloseTags
         THEN IF depth > 0 /\ Closes(tok, top.tag) /\ Complete(top)
              THEN CloseElement(ps, SubSeq(ps.stack, 1, depth - 1), top)
              ELSE DecoderFailed
    ELSE IF top.tag \in TextTags /\ top.n = 0 /\ IsText(tok)
         THEN [ps EXCEPT !.stack[depth] = [top EXCEPT !.text = tok, !.n = 1]]
         ELSE DecoderFailed

RECURSIVE DecoderRun(_, _)
DecoderRun(toks, ps) ==
    IF toks = <<>> \/ ~ps.ok THEN ps
    ELSE DecoderRun(Tail(toks), DecoderStep(ps, Head(toks)))

\* the closed root element of a text that is one whole element of kind tag
Decoded(ps, tag) ==
    IF ps.ok /\ ps.done /\ ps.root.tag = tag THEN [ok |-> TRUE, root |-> ps.root]
    ELSE [ok |-> FALSE, root |-> Frame("")]
Decode(toks, tag) == Decoded(DecoderRun(toks, DecoderStart), tag)

\* quick_xml::de::from_str::<Value>
ValueIn(d) == [ok |-> d.ok, val |-> d.root.val]
ParseValue(toks) == ValueIn(Decode(toks, "<value>"))

\* ------------------------------------------------- envelope deserializers
\* ok, the values of the <fault> children and the value lists of the
\* <params> children of a methodResponse, its XML declaration being optional
EnvelopeIn(d) == [ok |-> d.ok, faults |-> d.root.faults, params |-> d.root.params]
ParseEnvelope(contents) ==
    EnvelopeIn(Decode(IF StartsWith(contents, Prologue)
                      THEN DropN(contents, Len(Prologue)) ELSE contents,
                      "<methodResponse>"))

\* dxr::deserialize_xml::<FaultResponse>: a methodResponse with one <fault>
\* child whose value is a struct; other children are not looked at
FaultResponseIn(env) ==
    IF env.ok /\ Len(env.faults) = 1 /\ env.faults[1].t = "struct"
    THEN [ok |-> TRUE, strukt |-> env.faults[1]]
    ELSE [ok |-> FALSE, strukt |-> NoValue]
DeserializeFaultResponse(contents) == FaultResponseIn(ParseEnvelope(contents))

\* dxr::deserialize_xml::<MethodResponse>: a methodResponse with one <params>
\* child holding exactly one value; other children are not looked at
MethodResponseIn(env) ==
    IF env.ok /\ Len(env.params) = 1 /\ Len(env.params[1]) = 1
    THEN [ok |-> TRUE, value |-> env.params[1][1]]
    ELSE [ok |-> FALSE, value |-> NoValue]
DeserializeMethodResponse(contents) == MethodResponseIn(ParseEnvelope(contents))

\* HashMap<String, Value> of a struct's members: a later member of the same
\* name replaces an earlier one
HasMember(ms, name) == \E j \in 1..Len(ms) : ms[j].name = name
GetMember(ms, name) ==
    LET k == CHOOSE j \in 1..Len(ms) :
                 /\ ms[j].name = name
                 /\ \A h \in (j + 1)..Len(ms) : ms[h].name # name
    IN ms[k].value

\* Fault::try_from(FaultResponse)
FaultFromMembers(ms) ==
    IF ~HasMember(ms, "faultCode") \/ ~HasMember(ms, "faultString")
    THEN [ok |-> FALSE, code |-> 0, msg |-> "", err |-> "MissingField"]
    ELSE IF GetMember(ms, "faultCode").t # "i4" \/ GetMember(ms, "faultString").t # "string"
         THEN [ok |-> FALSE, code |-> 0, msg |-> "", err |-> "WrongType"]
         ELSE [ok |-> TRUE, code |-> GetMember(ms, "faultCode").i,
               msg |-> GetMember(ms, "faultString").s, err |-> ""]
FaultTryFrom(strukt) == FaultFromMembers(strukt.members)

\* R::try_from_value for the return types a caller can ask for
ReturnTypes == {"String", "i32", "Value", "VecValue"}
TryFromValue(R, v) ==
    CASE R = "String" -> v.t = "string"
      [] R = "i32" -> v.t = "i4"
      [] R = "VecValue" -> v.t = "array"
      [] OTHER -> TRUE

\* ---------------------------------------------------------------- outcomes
\* What a call hands back: kind is Ok, Fault, RPC or Net (ClientError), or
\* Panic when the call aborted instead of returning; None while it runs.
Out(kind, value, code, msg, err, text) ==
    [kind |-> kind, value |-> value, code |-> code, msg |-> msg, err |-> err,
     text |-> text]
NoOutcome == Out("None", NoValue, 0, "", "", <<>>)
OkOut(v) == Out("Ok", v, 0, "", "", <<>>)
FaultOut(code, msg) == Out("Fault", NoValue, code, msg, "", <<>>)
RpcOut(err, text) == Out("RPC", NoValue, 0, "", err, text)
NetOut(cause) == Out("Net", NoValue, 0, "", cause, <<>>)
PanicOut == Out("Panic", NoValue, 0, "", "index out of bounds", <<>>)

\* ------------------------------------------------------ response_to_result
\* [out, parses]: the result, and the deserializers run, in the order run
\* FaultArm with a server fault reported as a decode error
FaultArmAsRpc(f) == RpcOut(IF f.ok THEN "Fault" ELSE f.err, <<>>)

\* the match on Fault::try_from's result f
FaultArm(f) == IF f.ok THEN FaultOut(f.code, f.msg) ELSE RpcOut(f.err, <<>>)
\* ResponseArm with the deserializer's message in place of the text
ResponseArmParseError(mr, contents) ==
    IF mr.ok THEN OkOut(mr.value) ELSE RpcOut("InvalidData", <<"missing field params">>)

\* the match on the MethodResponse deserializer's result mr
ResponseArm(mr, contents) ==
    IF mr.ok THEN OkOut(mr.value) ELSE RpcOut("InvalidData", contents)
\* Resolution with the two deserializers tried in the other order
ResolutionResponseFirst(fr, contents) ==
    IF DeserializeMethodResponse(contents).ok
    THEN [out |-> OkOut(DeserializeMethodResponse(contents).value),
          parses |-> <<"MethodResponse">>]
    ELSE [out |-> IF fr.ok THEN FaultArm(FaultTryFrom(fr.strukt))
                  ELSE RpcOut("InvalidData", contents),
          parses |-> <<"MethodResponse", "FaultResponse">>]

\* the match on the FaultResponse deserializer's result fr
Resolution(fr, contents) ==
    IF fr.ok
    THEN [out |-> FaultArm(FaultTryFrom(fr.strukt)), parses |-> <<"FaultResponse">>]
    ELSE [out |-> ResponseArm(DeserializeMethodResponse(contents), contents),
          parses |-> <<"FaultResponse", "MethodResponse">>]
response_to_result(contents) == Resolution(DeserializeFaultResponse(contents), contents)

\* the end of Client::call: resolution, then extraction into the type R
Extraction(res, R) ==
    IF res.out.kind = "Ok" /\ ~TryFromValue(R, res.out.value)
    THEN [out |-> RpcOut("WrongType", <<>>), parses |-> res.parses]
    ELSE res
CallTail(contents, R) == Extraction(response_to_result(contents), R)

\* --------------------------------------------------------------- multicall
Success(v) == [ok |-> TRUE, value |-> v, code |-> 0, msg |-> ""]
Failure(code, msg) == [ok |-> FALSE, value |-> NoValue, code |-> code, msg |-> msg]

\* <(Value,)>::try_from_value: an array of exactly one element
IsTupleOfOne(v) == v.t = "array" /\ Len(v.elems) = 1
\* <HashMap<String, Value>>::try_from_value: any struct
IsMap(v) == v.t = "struct"

\* MulticallLoop with a struct that is no fault skipped instead of refused
RECURSIVE MulticallLoopSkipping(_, _)
MulticallLoopSkipping(rest, results) ==
    IF rest = <<>> THEN [err |-> "", results |-> results]
    ELSE LET result == Head(rest) IN
         IF IsTupleOfOne(result)
         THEN MulticallLoopSkipping(Tail(rest), Append(results, Success(result.elems[1])))
         ELSE IF IsMap(result) /\ FaultFromMembers(result.members).ok
              THEN MulticallLoopSkipping(Tail(rest),
                      Append(results, Failure(FaultFromMembers(result.members).code,
                                              FaultFromMembers(result.members).msg)))
              ELSE MulticallLoopSkipping(Tail(rest), results)

\* MulticallLoop with each outcome put in front of the earlier ones
RECURSIVE MulticallLoopPrepending(_, _)
MulticallLoopPrepending(rest, results) ==
    IF rest = <<>> THEN [err |-> "", results |-> results]
    ELSE LET result == Head(rest) IN
         IF IsTupleOfOne(result)
         THEN MulticallLoopPrepending(Tail(rest), <<Success(result.elems[1])>> \o results)
         ELSE IF ~IsMap(result) THEN MulticallLoopPrepending(Tail(rest), results)
         ELSE IF ~FaultFromMembers(result.members).ok
              THEN [err |-> FaultFromMembers(result.members).err, results |-> <<>>]
              ELSE MulticallLoopPrepending(Tail(rest),
                      <<Failure(FaultFromMembers(result.members).code,
                                FaultFromMembers(result.members).msg)>> \o results)

\* The loop of Client::multicall over the elements left, with the outcomes
\* recorded so far: [err, results], err = "" when the loop ran to its end.
RECURSIVE MulticallLoop(_, _)
MulticallLoop(rest, results) ==
    IF rest = <<>> THEN [err |-> "", results |-> results]
    ELSE LET result == Head(rest)
             r1 == IF IsTupleOfOne(result)
                   THEN Append(results, Success(result.elems[1])) ELSE results
         IN IF ~IsMap(result) THEN MulticallLoop(Tail(rest), r1)
            ELSE IF ~HasMember(result.members, "faultCode")
                    \/ ~HasMember(result.members, "faultString")
                 THEN [err |-> "MissingField", results |-> <<>>]
            ELSE LET code == GetMember(result.members, "faultCode")
                     string == GetMember(result.members, "faultString") IN
                 IF code.t # "i4" \/ string.t # "string"
                 THEN [err |-> "WrongType", results |-> <<>>]
                 ELSE MulticallLoop(Tail(rest), Append(r1, Failure(code.i, string.s)))

\* What multicall hands back: kind as for a call, the outcomes when kind is
\* Ok, the error otherwise.
McOut(kind, results, error) == [kind |-> kind, results |-> results, error |-> error]
NoMc == McOut("None", <<>>, NoOutcome)

\* Client::multicall after its call returned out
LoopResult(r) ==
    IF r.err = "" THEN McOut("Ok", r.results, NoOutcome)
    ELSE McOut("RPC", <<>>, RpcOut(r.err, <<>>))
multicall(out) ==
    IF out.kind # "Ok" THEN McOut(out.kind, <<>>, out)
    ELSE LoopResult(MulticallLoop(out.value.elems, <<>>))

\* ------------------------------------------------------- the frame handler
\* least index at which pat occurs in s, 0 when it does not occur
Find(s, pat) ==
    LET hits == {j \in 1..(Len(s) - Len(pat) + 1) : SubSeq(s, j, j + Len(pat) - 1) = pat} IN
    IF hits = {} THEN 0 ELSE CHOOSE j \in hits : \A h \in hits : j <= h

\* str::split: the pieces of s between the occurrences of pat
RECURSIVE Split(_, _)
Split(s, pat) ==
    LET k == Find(s, pat) IN
    IF k = 0 THEN <<s>>
    ELSE <<SubSeq(s, 1, k - 1)>> \o Split(DropN(s, k + Len(pat) - 1), pat)

\* String::from_utf8 succeeds
FromUtf8Ok(bytes) == \A j \in 1..Len(bytes) : bytes[j] # "\\xFF"

\* AccumulateFrame with a frame that is not UTF-8 ending the exchange
AccumulateFrameStrict(resp, response) ==
    IF ~FromUtf8Ok(response) THEN [panic |-> TRUE, resp |-> resp]
    ELSE LET pieces == Split(response, Marker) IN
         IF Len(pieces) < 2 THEN [panic |-> TRUE, resp |-> resp]
         ELSE [panic |-> FALSE, resp |-> resp \o Marker \o pieces[2]]

\* One non-empty frame met by the read loop with accumulator resp:
\* [panic, resp].  Indexing the pieces at [1] aborts when there is one piece.
AccumulateFrame(resp, response) ==
    IF ~FromUtf8Ok(response) THEN [panic |-> FALSE, resp |-> resp]
    ELSE LET pieces == Split(response, Marker) IN
         IF Len(pieces) < 2 THEN [panic |-> TRUE, resp |-> resp]
         ELSE [panic |-> FALSE, resp |-> resp \o Marker \o pieces[2]]

\* ------------------------------------------------------- what a peer sends
MethodResponseDoc(v) ==
    <<"<methodResponse>", "<params>", "<param>">> \o EncValue(v)
    \o <<"</param>", "</params>", "</methodResponse>">>
FaultResponseDoc(strukt) ==
    <<"<methodResponse>", "<fault>">> \o EncValue(strukt)
    \o <<"</fault>", "</methodResponse>">>

FaultStruct(code, msg) ==
    Struct(<<Member("faultCode", I4(code)), Member("faultString", Str(msg))>>)

HelloDoc == Prologue \o MethodResponseDoc(Str("Hello, DXR!"))

\* single-call responses: successes, faults, malformed faults, and texts
\* that are neither
BaseTexts ==
    { HelloDoc,
      MethodResponseDoc(I4(42)),
      Prologue \o FaultResponseDoc(FaultStruct(2, "bad")),
      FaultResponseDoc(Struct(<<Member("extra", I4(0)), Member("faultString", Str("no")),
                                Member("faultCode", I4(-12))>>)),
      Prologue \o FaultResponseDoc(Struct(<<Member("faultString", Str("bad"))>>)),
      FaultResponseDoc(Struct(<<Member("faultCode", Str("1")),
                                Member("faultString", Str("bad"))>>)),
      Prologue \o FaultResponseDoc(I4(1)),
      \* a fault next to a params container
      Prologue \o <<"<methodResponse>", "<fault>">> \o EncValue(FaultStruct(1, "both"))
          \o <<"</fault>", "<params>", "<param>">> \o EncValue(I4(1))
          \o <<"</param>", "</params>", "</methodResponse>">>,
      \* two params, no params, a cut-off document, no document
      Prologue \o <<"<methodResponse>", "<params>", "<param>">> \o EncValue(I4(1))
          \o <<"</param>", "<param>">> \o EncValue(I4(2))
          \o <<"</param>", "</params>", "</methodResponse>">>,
      Prologue \o <<"<methodResponse>", "</methodResponse>">>,
      SubSeq(HelloDoc, 1, Len(HelloDoc) - 3),
      <<"garbage">>,
      <<>> }

\* the elements a multicall response array is made of
McElems ==
    << Array(<<I4(42)>>),
       FaultStruct(1, "bad"),
       Struct(<<Member("faultCode", I4(2)), Member("extra", Str("more")),
                Member("faultString", Str("worse"))>>),
       Struct(<<Member("faultString", Str("bad"))>>),
       Struct(<<Member("faultCode", Str("1")), Member("faultString", Str("bad"))>>),
       Str("skip me"),
       Array(<<I4(1), I4(2)>>) >>

McArrays ==
    UNION { { Array([j \in 1..k |-> McElems[ix[j]]]) : ix \in [1..k -> 1..Len(McElems)] }
            : k \in 0..MaxElems }

McTexts == { Prologue \o MethodResponseDoc(a) : a \in McArrays }

Texts == BaseTexts \cup McTexts

\* What may precede the document on the socket: nothing, the response
\* header block of the SCGI peer, or bytes that are not UTF-8.
ScgiHeaders == "Status: 200 OK\\r\\n\\r\\n"
Prefixes == { <<>>, <<ScgiHeaders>>, <<"\\xFF">> }

\* the byte streams a socket peer may send, cut into frames as it likes
SocketStreams ==
    { pre \o d : pre \in Prefixes, d \in BaseTexts }
    \cup { <<ScgiHeaders>> \o Prologue \o MethodResponseDoc(Array(<<McElems[j]>>))
           : j \in 1..Len(McElems) }
    \cup { <<ScgiHeaders>> \o HelloDoc \o HelloDoc, HelloDoc \o <<"\\xFF">> }

\* ------------------------------------------------------------------ client
Urls == { [scheme |-> "unix", path |-> "/tmp/rtorrent.sock"],
          [scheme |-> "http", path |-> "/"],
          [scheme |-> "https", path |-> "/RPC2"] }

\* Transport with the match written on the "http" scheme
TransportMatchingHttp(u) == IF u.scheme = "http" THEN "http" ELSE "scgi"

\* the match on the endpoint's scheme in Client::call
Transport(u) == IF u.scheme = "unix" THEN "scgi" ELSE "http"

\* ------------------------------------------------ the local-socket request
\* A String is a sequence of symbols: single characters, and the tags and
\* the declaration of the document, each a run of ASCII characters.
\* the runs, with the number of characters each has
AsciiRuns ==
    << <<PrologueRest, 16>>, <<"<methodCall>", 12>>, <<"</methodCall>", 13>>,
       <<"<methodName>", 12>>, <<"</methodName>", 13>>, <<"<params>", 8>>,
       <<"</params>", 9>>, <<"<param>", 7>>, <<"</param>", 8>>, <<"<value>", 7>>,
       <<"</value>", 8>>, <<"<string>", 8>>, <<"</string>", 9>> >>
\* the characters that take more than one byte in UTF-8, with their bytes
WideChars == << <<"\\u00E9", 2>>, <<"\\u20AC", 3>>, <<"\\U0001D11E", 4>> >>

Lookup(table, x, default) ==
    IF \E j \in 1..Len(table) : table[j][1] = x
    THEN table[CHOOSE j \in 1..Len(table) : table[j][1] = x][2]
    ELSE default

\* the characters, and the UTF-8 bytes, of one symbol
CharsOf(sym) == Lookup(AsciiRuns, sym, 1)
Utf8Len(sym) == Lookup(WideChars, sym, CharsOf(sym))

\* str::chars().count()
RECURSIVE chars_count(_)
chars_count(str) == IF str = <<>> THEN 0 ELSE CharsOf(Head(str)) + chars_count(Tail(str))

\* String::len: the length in bytes
RECURSIVE len(_)
len(str) == IF str = <<>> THEN 0 ELSE Utf8Len(Head(str)) + len(Tail(str))

\* str::as_bytes: byte k of symbol sym, for every symbol in turn
RECURSIVE as_bytes(_)
as_bytes(str) ==
    IF str = <<>> THEN <<>>
    ELSE [k \in 1..Utf8Len(Head(str)) |-> [of |-> Head(str), k |-> k]]
         \o as_bytes(Tail(str))

\* usize::to_string: the decimal digits
Digits == <<"0", "1", "2", "3", "4", "5", "6", "7", "8", "9">>
RECURSIVE to_string(_)
to_string(n) ==
    IF n < 10 THEN <<Digits[n + 1]>>
    ELSE to_string(n \div 10) \o <<Digits[(n % 10) + 1]>>

\* dxr::serialize_xml(&call): the method name, and every parameter in a
\* param element of its own inside one params container
RECURSIVE SerializeParams(_)
SerializeParams(ps) ==
    IF ps = <<>> THEN <<>>
    ELSE <<"<param>", "<value>", "<string>">> \o Head(ps)
         \o <<"</string>", "</value>", "</param>">> \o SerializeParams(Tail(ps))
serialize_xml(call) ==
    <<"<methodCall>", "<methodName>">> \o call.name \o <<"</methodName>", "<params>">>
    \o SerializeParams(call.params) \o <<"</params>", "</methodCall>">>

\* the declaration, the document and "" joined by "\n"
request_to_body(call) == Prologue \o <<"\n">> \o serialize_xml(call) \o <<"\n">>

\* ScgiRequest with CONTENT_LENGTH counted in characters
ScgiRequestCountingChars(body) ==
    [headers |-> << <<"CONTENT_LENGTH", to_string(chars_count(body))>>,
                    <<"SCGI", <<"1">>>>,
                    <<"REQUEST_METHOD", <<"P", "O", "S", "T">>>>,
                    <<"REQUEST_URI", <<"/", "R", "P", "C">>>> >>,
     body |-> as_bytes(body)]

\* SCGIRequest::Request(vec![..], BytesMut::from(body.as_bytes()))
ScgiRequest(body) ==
    [headers |-> << <<"CONTENT_LENGTH", to_string(len(body))>>,
                    <<"SCGI", <<"1">>>>,
                    <<"REQUEST_METHOD", <<"P", "O", "S", "T">>>>,
                    <<"REQUEST_URI", <<"/", "R", "P", "C">>>> >>,
     body |-> as_bytes(body)]

\* What framed.send writes: the fields in the order of the vector, each a
\* name and a value, then the body bytes.
RECURSIVE EncodeHeaders(_)
EncodeHeaders(hs) ==
    IF hs = <<>> THEN <<>>
    ELSE <<[item |-> "name", v |-> <<Head(hs)[1]>>], [item |-> "value", v |-> Head(hs)[2]]>>
         \o EncodeHeaders(Tail(hs))
EncodeRequest(req) ==
    EncodeHeaders(req.headers)
    \o [j \in 1..Len(req.body) |-> [item |-> "byte", v |-> <<req.body[j]>>]]

NoCall == [name |-> <<>>, params |-> <<>>]
NoScgi == [headers |-> <<>>, body |-> <<>>]
NoRequest == [pc |-> "idle", call |-> NoCall, body |-> <<>>, req |-> NoScgi, wire |-> <<>>]

\* ----------------------------------------------------------- ClientBuilder
CONTENT_TYPE == "content-type"
USER_AGENT == "user-agent"
DEFAULT_USER_AGENT == "dxr-client-v0"

\* Option<&'static str>
None == [some |-> FALSE, v |-> ""]
Some(x) == [some |-> TRUE, v |-> x]

\* HeaderMap::insert: the value replaces the values the name had
Insert(headers, name, value) ==
    {h \in headers : h.name # name} \cup {[name |-> name, value |-> value]}
\* HeaderMap::get, "" when the name has no value
Get(headers, name) ==
    IF \E h \in headers : h.name = name
    THEN (CHOOSE h \in headers : h.name = name).value ELSE ""

new(u) ==
    [url |-> u, headers |-> Insert({}, CONTENT_TYPE, "text/xml"), user_agent |-> None]

user_agent(self, ua) == [self EXCEPT !.user_agent = Some(ua)]

add_header(self, name, value) == [self EXCEPT !.headers = Insert(@, name, value)]

\* build with the User-Agent header set only when the caller has set none
buildKeepingHeader(self) ==
    LET ua == IF self.user_agent.some THEN self.user_agent.v ELSE DEFAULT_USER_AGENT IN
    [url |-> self.url,
     headers |-> IF Get(self.headers, USER_AGENT) = ""
                 THEN add_header(self, USER_AGENT, ua).headers ELSE self.headers]

\* ClientBuilder::build: the Client, with the default headers its HTTP
\* client sends
build(self) ==
    LET ua == IF self.user_agent.some THEN self.user_agent.v ELSE DEFAULT_USER_AGENT IN
    [url |-> self.url, headers |-> add_header(self, USER_AGENT, ua).headers]

\* the value of a variable that holds no builder, no client
NoUrl == [scheme |-> "", path |-> ""]
NoBuilder == [url |-> NoUrl, headers |-> {}, user_agent |-> None]
NoClient == [url |-> NoUrl, headers |-> {}]
NoCodec == [pc |-> "idle", v |-> NoValue, xml |-> <<>>, explicit |-> FALSE,
            back |-> [ok |-> FALSE, val |-> NoValue]]
NoCalls == [call |-> <<>>, conns |-> <<>>]

\* ------------------------------------------------------------------- state
VARIABLES
    url,        \* the client's endpoint, fixed when the client is built
    pc,         \* where the call is: idle, connect, send, read, http_execute,
                \* http_text, done
    op,         \* the method running: "call" or "multicall"
    rtype,      \* the return type R the caller expects
    stream,     \* socket peer: the bytes it has still to send
    reads,      \* frames read so far in this exchange
    resp,       \* send_scgi_request: the accumulated response
    connects,   \* socket connections this call tried to open
    sends,      \* requests this call tried to send on the socket
    connOpen,   \* the call holds an open socket connection
    sockPath,   \* the path the socket was connected to
    httpReqs,   \* HTTP requests this call executed
    contents,   \* the text handed to response_to_result
    parses,     \* the deserializers response_to_result ran, in order
    outcome,    \* what call handed back
    mcOutcome,  \* what multicall handed back
    frames,     \* the frames the read loop has met in this exchange, in order
    builder,    \* the ClientBuilder a caller is setting up
    ops,        \* the builder methods called on it, in order
    client,     \* the Client that was built
    codec,      \* a value on its way through the value codec
    calls,      \* the calls running concurrently on one shared client
    request,    \* a call on its way into a local-socket request
    peer        \* the socket peer's end of the connection: "open" or "ended"

\* the state of one call at a time on one client
callVars == <<url, pc, op, rtype, stream, reads, resp, connects, sends, connOpen,
              sockPath, httpReqs, contents, parses, outcome, mcOutcome, frames>>
\* what a single call leaves alone
others == <<builder, ops, client, codec, calls, request, peer>>

vars == <<callVars, others>>

Init ==
    /\ url \in Urls
    /\ pc = "idle"
    /\ op = "call"
    /\ rtype = "Value"
    /\ stream = <<>>
    /\ reads = 0
    /\ resp = <<>>
    /\ connects = 0
    /\ sends = 0
    /\ connOpen = FALSE
    /\ sockPath = ""
    /\ httpReqs = 0
    /\ contents = <<>>
    /\ parses = <<>>
    /\ outcome = NoOutcome
    /\ mcOutcome = NoMc
    /\ frames = <<>>
    /\ builder = NoBuilder
    /\ ops = <<>>
    /\ client = build(new(url))
    /\ codec = NoCodec
    /\ calls = NoCalls
    /\ request = NoRequest
    /\ peer = "open"

\* call hands back out (and multicall, when it is the caller, its own result)
Return(out) ==
    /\ pc' = "done"
    /\ outcome' = out
    /\ mcOutcome' = IF op = "multicall" THEN multicall(out) ELSE NoMc

\* the exchange is complete with response text: resolution and extraction
Resolved(text, r) ==
    /\ contents' = text
    /\ parses' = r.parses
    /\ Return(r.out)
Resolve(text) == Resolved(text, CallTail(text, rtype))

\* A caller starts call (o = "call", any return type) or multicall (return
\* type Vec<Value>); the call is serialized and the transport chosen.
CallStarts(o, R) ==
    /\ pc = "idle"
    /\ o = "multicall" => R = "VecValue"
    /\ op' = o
    /\ rtype' = R

\* scheme "unix": the SCGI request is built, the socket is to be connected
CallUnix ==
    /\ \E o \in {"call", "multicall"}, R \in ReturnTypes : CallStarts(o, R)
    /\ Transport(url) = "scgi"
    /\ pc' = "connect"
    /\ UNCHANGED <<others, frames, url, stream, reads, resp, connects, sends, connOpen, sockPath,
                   httpReqs, contents, parses, outcome, mcOutcome>>

\* any other scheme: the HTTP request is built, and is to be executed
CallHttp ==
    /\ \E o \in {"call", "multicall"}, R \in ReturnTypes : CallStarts(o, R)
    /\ Transport(url) = "http"
    /\ pc' = "http_execute"
    /\ UNCHANGED <<others, frames, url, stream, reads, resp, connects, sends, connOpen, sockPath,
                   httpReqs, contents, parses, outcome, mcOutcome>>

\* building the HTTP request fails
CallHttpBuildErr ==
    /\ \E o \in {"call", "multicall"}, R \in ReturnTypes :
          /\ CallStarts(o, R)
          /\ mcOutcome' = IF o = "multicall" THEN multicall(NetOut("build")) ELSE NoMc
    /\ Transport(url) = "http"
    /\ pc' = "done"
    /\ outcome' = NetOut("build")
    /\ UNCHANGED <<others, frames, url, stream, reads, resp, connects, sends, connOpen, sockPath,
                   httpReqs, contents, parses>>

\* the call cannot be serialized (as_xml_rpc or request_to_body fails)
CallSerializeErr ==
    /\ \E o \in {"call", "multicall"}, R \in ReturnTypes :
          /\ CallStarts(o, R)
          /\ mcOutcome' = IF o = "multicall"
                          THEN multicall(RpcOut("InvalidData", <<>>)) ELSE NoMc
    /\ pc' = "done"
    /\ outcome' = RpcOut("InvalidData", <<>>)
    /\ UNCHANGED <<others, frames, url, stream, reads, resp, connects, sends, connOpen, sockPath,
                   httpReqs, contents, parses>>

\* The error arm of the match on send_scgi_request's result
ScgiFailure == FaultOut(1, "Failed to connect to rtorrent socket")

\* ------------------------------------------------------- send_scgi_request
\* UnixStream::connect succeeds; the peer decides what it will answer
Connect ==
    /\ pc = "connect"
    /\ connects' = connects + 1
    /\ connOpen' = TRUE
    /\ sockPath' = url.path
    /\ stream' \in SocketStreams
    /\ pc' = "send"
    /\ UNCHANGED <<others, frames, url, op, rtype, reads, resp, sends, httpReqs, contents, parses,
                   outcome, mcOutcome>>

\* UnixStream::connect fails
ConnectErr ==
    /\ pc = "connect"
    /\ connects' = connects + 1
    /\ sockPath' = url.path
    /\ Return(ScgiFailure)
    /\ UNCHANGED <<others, frames, url, op, rtype, stream, reads, resp, sends, connOpen, httpReqs,
                   contents, parses>>

\* framed.send succeeds
Send ==
    /\ pc = "send"
    /\ sends' = sends + 1
    /\ pc' = "read"
    /\ UNCHANGED <<others, frames, url, op, rtype, stream, reads, resp, connects, connOpen, sockPath,
                   httpReqs, contents, parses, outcome, mcOutcome>>

\* framed.send fails: the function returns and drops the connection
SendErr ==
    /\ pc = "send"
    /\ sends' = sends + 1
    /\ connOpen' = FALSE
    /\ stream' = <<>>
    /\ Return(ScgiFailure)
    /\ UNCHANGED <<others, frames, url, op, rtype, reads, resp, connects, sockPath, httpReqs,
                   contents, parses>>

\* ReadNone with the exchange given up
ReadNoneFails ==
    /\ pc = "read"
    /\ reads < MaxReads
    /\ reads' = reads + 1
    /\ connOpen' = FALSE
    /\ stream' = <<>>
    /\ Return(ScgiFailure)
    /\ UNCHANGED <<others, frames, url, op, rtype, resp, connects, sends, sockPath,
                   httpReqs, contents, parses>>

\* framed.next() yields None: the loop reads again
ReadNone ==
    /\ pc = "read"
    /\ reads < MaxReads
    /\ reads' = reads + 1
    /\ UNCHANGED <<others, frames, url, pc, op, rtype, stream, resp, connects, sends, connOpen,
                   sockPath, httpReqs, contents, parses, outcome, mcOutcome>>

\* ReadErr with the exchange tried again on a new connection
ReadErrRetry ==
    /\ pc = "read"
    /\ connOpen' = FALSE
    /\ stream' = <<>>
    /\ pc' = "connect"
    /\ UNCHANGED <<others, frames, url, op, rtype, reads, resp, connects, sends, sockPath, httpReqs,
                   contents, parses, outcome, mcOutcome>>

\* ReadErr with the text accumulated so far handed to resolution
ReadErrResolves ==
    /\ pc = "read"
    /\ connOpen' = FALSE
    /\ stream' = <<>>
    /\ Resolve(resp)
    /\ UNCHANGED <<others, frames, url, op, rtype, reads, resp, connects, sends,
                   sockPath, httpReqs>>

\* framed.next() yields an error: the function returns it
ReadErr ==
    /\ pc = "read"
    /\ connOpen' = FALSE
    /\ stream' = <<>>
    /\ Return(ScgiFailure)
    /\ UNCHANGED <<others, frames, url, op, rtype, reads, resp, connects, sends, sockPath, httpReqs,
                   contents, parses>>

\* framed.next() yields the next k bytes of the peer's stream as one frame.
\* The fresh SCGICodec the loop decodes the frame with forwards the bytes
\* of a non-empty buffer as they are, so the Ok(Some(_)) arm is the one taken.
ReadFrame ==
    /\ pc = "read"
    /\ reads < MaxReads
    /\ \E k \in 1..Len(stream) :
          LET a == AccumulateFrame(resp, SubSeq(stream, 1, k)) IN
          /\ frames' = Append(frames, SubSeq(stream, 1, k))
          /\ IF a.panic
             THEN /\ connOpen' = FALSE
                  /\ stream' = <<>>
                  /\ resp' = resp
                  /\ Return(PanicOut)
             ELSE /\ stream' = DropN(stream, k)
                  /\ resp' = a.resp
                  /\ UNCHANGED <<pc, connOpen, outcome, mcOutcome>>
    /\ reads' = reads + 1
    /\ UNCHANGED <<others, url, op, rtype, connects, sends, sockPath, httpReqs, contents,
                   parses>>

\* framed.next() yields a zero-length frame: the loop ends, the function
\* returns the accumulated response, call resolves it
ReadEnd ==
    /\ pc = "read"
    /\ connOpen' = FALSE
    /\ stream' = <<>>
    /\ frames' = Append(frames, <<>>)
    /\ Resolve(resp)
    /\ UNCHANGED <<others, url, op, rtype, reads, resp, connects, sends, sockPath, httpReqs>>

\* ---------------------------------------------------------- HTTP transport
\* client.execute succeeds
HttpExecute ==
    /\ pc = "http_execute"
    /\ httpReqs' = httpReqs + 1
    /\ pc' = "http_text"
    /\ UNCHANGED <<others, frames, url, op, rtype, stream, reads, resp, connects, sends, connOpen,
                   sockPath, contents, parses, outcome, mcOutcome>>

\* client.execute fails
HttpExecuteErr ==
    /\ pc = "http_execute"
    /\ httpReqs' = httpReqs + 1
    /\ Return(NetOut("execute"))
    /\ UNCHANGED <<others, frames, url, op, rtype, stream, reads, resp, connects, sends, connOpen,
                   sockPath, contents, parses>>

\* the response body is read: call resolves it
HttpText ==
    /\ pc = "http_text"
    /\ \E text \in Texts : Resolve(text)
    /\ UNCHANGED <<others, frames, url, op, rtype, stream, reads, resp, connects, sends, connOpen,
                   sockPath, httpReqs>>

\* HttpTextErr with the unread body resolved as an empty text
HttpTextErrResolves ==
    /\ pc = "http_text"
    /\ Resolve(<<>>)
    /\ UNCHANGED <<others, frames, url, op, rtype, stream, reads, resp, connects, sends, connOpen,
                   sockPath, httpReqs>>

\* reading the response body fails
HttpTextErr ==
    /\ pc = "http_text"
    /\ Return(NetOut("text"))
    /\ UNCHANGED <<others, frames, url, op, rtype, stream, reads, resp, connects, sends, connOpen,
                   sockPath, httpReqs, contents, parses>>

\* the caller has its result; the client is free for the next call
NextCall ==
    /\ pc = "done"
    /\ outcome.kind # "Panic"
    /\ pc' = "idle"
    /\ op' = "call"
    /\ rtype' = "Value"
    /\ reads' = 0
    /\ resp' = <<>>
    /\ connects' = 0
    /\ sends' = 0
    /\ sockPath' = ""
    /\ httpReqs' = 0
    /\ contents' = <<>>
    /\ parses' = <<>>
    /\ outcome' = NoOutcome
    /\ mcOutcome' = NoMc
    /\ frames' = <<>>
    /\ UNCHANGED <<others, url, stream, connOpen>>

Next ==
    \/ CallUnix
    \/ CallHttp
    \/ CallHttpBuildErr
    \/ CallSerializeErr
    \/ Connect
    \/ ConnectErr
    \/ Send
    \/ SendErr
    \/ ReadNone
    \/ ReadErr
    \/ ReadFrame
    \/ ReadEnd
    \/ HttpExecute
    \/ HttpExecuteErr
    \/ HttpText
    \/ HttpTextErr
    \/ NextCall

Spec == Init /\ [][Next]_vars

\* ------------------------------------------- building a client: BuilderSpec
\* no call is running and none has run
IdleCall ==
    /\ pc = "idle" /\ op = "call" /\ rtype = "Value"
    /\ stream = <<>> /\ reads = 0 /\ resp = <<>>
    /\ connects = 0 /\ sends = 0 /\ connOpen = FALSE /\ sockPath = ""
    /\ httpReqs = 0 /\ contents = <<>> /\ parses = <<>>
    /\ outcome = NoOutcome /\ mcOutcome = NoMc /\ frames = <<>>

\* the header names and values, and the user agents, a caller passes
HeaderNames == {CONTENT_TYPE, USER_AGENT, "x-token"}
HeaderValues == {"text/xml", "application/json", "curl/8"}
UserAgents == {"my-agent", "other-agent"}

BuilderOp(o, name, value) == [op |-> o, name |-> name, value |-> value]

BuilderInit ==
    /\ url \in Urls
    /\ IdleCall
    /\ builder = new(url)
    /\ ops = <<>>
    /\ client = NoClient
    /\ codec = NoCodec
    /\ calls = NoCalls
    /\ request = NoRequest
    /\ peer = "open"

\* builder.user_agent(ua)
UserAgent ==
    /\ builder # NoBuilder
    /\ Len(ops) < MaxOps
    /\ \E ua \in UserAgents :
          /\ builder' = user_agent(builder, ua)
          /\ ops' = Append(ops, BuilderOp("user_agent", "", ua))
    /\ UNCHANGED <<callVars, client, codec, calls, request, peer>>

\* builder.add_header(name, value)
AddHeader ==
    /\ builder # NoBuilder
    /\ Len(ops) < MaxOps
    /\ \E name \in HeaderNames, value \in HeaderValues :
          /\ builder' = add_header(builder, name, value)
          /\ ops' = Append(ops, BuilderOp("add_header", name, value))
    /\ UNCHANGED <<callVars, client, codec, calls, request, peer>>

\* builder.build(): the builder is consumed
Build ==
    /\ builder # NoBuilder
    /\ client' = build(builder)
    /\ builder' = NoBuilder
    /\ UNCHANGED <<callVars, ops, codec, calls, request, peer>>

BuilderNext ==
    \/ UserAgent
    \/ AddHeader
    \/ Build

BuilderSpec == BuilderInit /\ [][BuilderNext]_vars

\* ----------------------------------------------- the value codec: CodecSpec
\* the values without parts
Scalars ==
    { I4(I4Texts[j][1]) : j \in 1..Len(I4Texts) }
    \cup { Boolean(b) : b \in BOOLEAN }
    \cup { Str(x) : x \in {"", "Hello, World!", "minus twelve"} }
    \cup { Double(DoubleTexts[j][1]) : j \in 1..Len(DoubleTexts) }
    \cup { Base64(Base64Texts[j][1]) : j \in 1..Len(Base64Texts) }
    \cup { DateTime(DateTexts[j][1], n) : j \in 1..Len(DateTexts), n \in {0, 500000000} }

\* the values collections are filled with: one scalar of each kind
Leaves ==
    { I4(-12), Boolean(TRUE), Str("minus twelve"), Double(15), Base64("hi"),
      DateTime(900684535, 500000000) }
MemberNames == {"answer", "question"}

StructsOf(vs) ==
    UNION { { Struct([j \in 1..k |-> Member(ns[j], es[j])])
              : ns \in [1..k -> MemberNames], es \in [1..k -> vs] }
            : k \in 0..MaxMembers }
ArraysOf(vs) ==
    UNION { { Array([j \in 1..k |-> es[j]]) : es \in [1..k -> vs] } : k \in 0..MaxElems }

\* collections of scalars
Flat == StructsOf(Leaves) \cup ArraysOf(Leaves)
\* collections the nested collections are made of
Inner ==
    { Struct(<<>>), Array(<<>>), Array(<<I4(-12), Str("minus twelve")>>),
      Struct(<<Member("answer", I4(42)), Member("answer", Boolean(FALSE))>>) }
Nested == StructsOf(Inner) \cup ArraysOf(Inner) \cup { Array(<<Array(<<v>>)>>) : v \in Inner }

CodecValues == Scalars \cup Flat \cup Nested

\* a value with the sub-second part of every timestamp in it dropped
RECURSIVE Truncated(_)
Truncated(v) ==
    CASE v.t = "dateTime" -> DateTime(v.secs, 0)
      [] v.t = "struct" ->
            Struct([j \in 1..Len(v.members) |->
                       Member(v.members[j].name, Truncated(v.members[j].value))])
      [] v.t = "array" -> Array([j \in 1..Len(v.elems) |-> Truncated(v.elems[j])])
      [] OTHER -> v

\* a text with every self-closing element written as a start and an end tag
RECURSIVE Explicit(_)
Explicit(toks) ==
    IF toks = <<>> THEN <<>>
    ELSE (CASE Head(toks) = "<struct/>" -> <<"<struct>", "</struct>">>
            [] Head(toks) = "<data/>" -> <<"<data>", "</data>">>
            [] OTHER -> <<Head(toks)>>) \o Explicit(Tail(toks))

CodecInit ==
    /\ url \in Urls
    /\ IdleCall
    /\ builder = NoBuilder
    /\ ops = <<>>
    /\ client = build(new(url))
    /\ codec \in { [NoCodec EXCEPT !.pc = "value", !.v = v] : v \in CodecValues }
    /\ calls = NoCalls
    /\ request = NoRequest
    /\ peer = "open"

\* quick_xml::se::to_string(&value)
Encode ==
    /\ codec.pc = "value"
    /\ codec' = [codec EXCEPT !.pc = "encoded", !.xml = EncValue(codec.v)]
    /\ UNCHANGED <<callVars, builder, ops, client, calls, request, peer>>

\* a peer writes the same document with no self-closing element
Rewrite ==
    /\ codec.pc = "encoded"
    /\ ~codec.explicit
    /\ Explicit(codec.xml) # codec.xml
    /\ codec' = [codec EXCEPT !.xml = Explicit(codec.xml), !.explicit = TRUE]
    /\ UNCHANGED <<callVars, builder, ops, client, calls, request, peer>>

\* quick_xml::de::from_str::<Value>(&xml)
DecodeText ==
    /\ codec.pc = "encoded"
    /\ codec' = [codec EXCEPT !.pc = "decoded", !.back = ParseValue(codec.xml)]
    /\ UNCHANGED <<callVars, builder, ops, client, calls, request, peer>>

CodecNext ==
    \/ Encode
    \/ Rewrite
    \/ DecodeText

CodecSpec == CodecInit /\ [][CodecNext]_vars

\* ------------------------------- calls sharing one client: ConcurrentSpec
\* calls.call[i] is the state of the i-th call (the locals of its call and
\* send_scgi_request futures), calls.conns[c] the c-th connection opened on
\* the socket: what its peer sends in all, and what it has still to send.
CallIds == {1, 2}

NewCall ==
    [pc |-> "idle", rtype |-> "Value", conn |-> 0, reads |-> 0, resp |-> <<>>,
     frames |-> <<>>, contents |-> <<>>, parses |-> <<>>, outcome |-> NoOutcome]

\* what the peers of concurrent calls send
ConcStreams ==
    { <<ScgiHeaders>> \o HelloDoc,
      Prologue \o FaultResponseDoc(FaultStruct(2, "bad")),
      <<"garbage">> }
\* where a peer's bytes are cut into frames: inside the marker, or not at all
ConcCuts(s) == { k \in {3, Len(s)} : k >= 1 /\ k <= Len(s) }

ConcurrentInit ==
    /\ url \in { u \in Urls : Transport(u) = "scgi" }
    /\ IdleCall
    /\ builder = NoBuilder
    /\ ops = <<>>
    /\ client = build(new(url))
    /\ codec = NoCodec
    /\ calls = [call |-> [i \in CallIds |-> NewCall], conns |-> <<>>]
    /\ request = NoRequest
    /\ peer = "open"

\* ReadsFrom with the framed stream kept where every call finds the one
\* opened last
ReadsFromLatest(cs, i) == Len(cs.conns)

\* the connection call i reads its frames from: the one it opened
ReadsFrom(cs, i) == cs.call[i].conn

\* call i goes on as c, connection k (if any) as n
Goes(i, c, k, n) ==
    /\ calls' = [call |-> [calls.call EXCEPT ![i] = c],
                 conns |-> IF k = 0 THEN calls.conns
                           ELSE [calls.conns EXCEPT ![k] = n]]
    /\ UNCHANGED <<callVars, builder, ops, client, codec, request, peer>>

\* call i ends with out; its connection is dropped
Ends(i, c, out) ==
    Goes(i, [c EXCEPT !.pc = "done", !.outcome = out], c.conn,
         IF c.conn = 0 THEN <<>>
         ELSE [calls.conns[c.conn] EXCEPT !.open = FALSE])

\* call i ends with the resolution r of text
EndsResolved(i, c, text, r) ==
    Ends(i, [c EXCEPT !.contents = text, !.parses = r.parses], r.out)

\* a caller starts call i on the shared client
ConcCall(i) ==
    /\ calls.call[i].pc = "idle"
    /\ Transport(client.url) = "scgi"
    /\ \E R \in {"Value", "i32"} :
          Goes(i, [calls.call[i] EXCEPT !.pc = "connect", !.rtype = R], 0, <<>>)

\* UnixStream::connect succeeds: a new connection, whose peer decides what
\* it will answer
ConcConnect(i) ==
    /\ calls.call[i].pc = "connect"
    /\ \E s \in ConcStreams :
          /\ calls' = [call |-> [calls.call EXCEPT
                                    ![i] = [@ EXCEPT !.pc = "send",
                                                     !.conn = Len(calls.conns) + 1]],
                       conns |-> Append(calls.conns,
                                        [path |-> client.url.path, sent |-> s,
                                         left |-> s, open |-> TRUE])]
          /\ UNCHANGED <<callVars, builder, ops, client, codec, request, peer>>

\* UnixStream::connect fails
ConcConnectErr(i) ==
    /\ calls.call[i].pc = "connect"
    /\ Ends(i, calls.call[i], ScgiFailure)

\* framed.send succeeds
ConcSend(i) ==
    /\ calls.call[i].pc = "send"
    /\ Goes(i, [calls.call[i] EXCEPT !.pc = "read"], 0, <<>>)

\* framed.next() yields None
ConcReadNone(i) ==
    /\ calls.call[i].pc = "read"
    /\ calls.call[i].reads < MaxConcReads
    /\ Goes(i, [calls.call[i] EXCEPT !.reads = @ + 1], 0, <<>>)

\* framed.next() yields an error
ConcReadErr(i) ==
    /\ calls.call[i].pc = "read"
    /\ Ends(i, calls.call[i], ScgiFailure)

\* call i with frame met and accumulated as a says
ConcAccumulated(i, c, from, frame, a) ==
    IF a.panic
    THEN Ends(i, [c EXCEPT !.reads = @ + 1, !.frames = Append(@, frame)], PanicOut)
    ELSE Goes(i, [c EXCEPT !.reads = @ + 1, !.frames = Append(@, frame),
                           !.resp = a.resp],
              from, [calls.conns[from] EXCEPT !.left = DropN(@, Len(frame))])

\* framed.next() yields the next bytes of the connection as one frame
ConcReadFrame(i) ==
    /\ calls.call[i].pc = "read"
    /\ calls.call[i].reads < MaxConcReads
    /\ \E k \in ConcCuts(calls.conns[ReadsFrom(calls, i)].left) :
          ConcAccumulated(i, calls.call[i], ReadsFrom(calls, i),
              SubSeq(calls.conns[ReadsFrom(calls, i)].left, 1, k),
              AccumulateFrame(calls.call[i].resp,
                              SubSeq(calls.conns[ReadsFrom(calls, i)].left, 1, k)))

\* framed.next() yields a zero-length frame: the response is resolved
ConcReadEnd(i) ==
    /\ calls.call[i].pc = "read"
    /\ EndsResolved(i, [calls.call[i] EXCEPT !.frames = Append(@, <<>>)],
                    calls.call[i].resp,
                    CallTail(calls.call[i].resp, calls.call[i].rtype))

ConcurrentNext ==
    \E i \in CallIds :
        \/ ConcCall(i)
        \/ ConcConnect(i)
        \/ ConcConnectErr(i)
        \/ ConcSend(i)
        \/ ConcReadNone(i)
        \/ ConcReadErr(i)
        \/ ConcReadFrame(i)
        \/ ConcReadEnd(i)

ConcurrentSpec == ConcurrentInit /\ [][ConcurrentNext]_vars

\* -------------------------------- making the socket request: RequestSpec
MethodNames == { <<"h", "e", "l", "l", "o">>, <<"d", ".", "n", "a", "m", "e">>,
                 <<"\\u00E9", "t", "a", "t">> }
ParamStrings == { <<>>, <<"D", "X", "R">>, <<"5", "\\u20AC">>, <<"\\U0001D11E">> }
MethodCalls ==
    UNION { { [name |-> n, params |-> ps] : n \in MethodNames, ps \in [1..k -> ParamStrings] }
            : k \in 0..MaxParams }

RequestInit ==
    /\ url \in { u \in Urls : Transport(u) = "scgi" }
    /\ IdleCall
    /\ builder = NoBuilder
    /\ ops = <<>>
    /\ client = build(new(url))
    /\ codec = NoCodec
    /\ calls = NoCalls
    /\ request \in { [NoRequest EXCEPT !.pc = "call", !.call = c] : c \in MethodCalls }
    /\ peer = "open"

\* call.as_xml_rpc() and request_to_body(&request)
RequestBody ==
    /\ request.pc = "call"
    /\ request' = [request EXCEPT !.pc = "body", !.body = request_to_body(request.call)]
    /\ UNCHANGED <<callVars, builder, ops, client, codec, calls, peer>>

\* the "unix" arm builds the SCGI request
RequestBuild ==
    /\ request.pc = "body"
    /\ Transport(client.url) = "scgi"
    /\ request' = [request EXCEPT !.pc = "request", !.req = ScgiRequest(request.body)]
    /\ UNCHANGED <<callVars, builder, ops, client, codec, calls, peer>>

\* framed.send(request)
RequestSend ==
    /\ request.pc = "request"
    /\ request' = [request EXCEPT !.pc = "sent", !.wire = EncodeRequest(request.req)]
    /\ UNCHANGED <<callVars, builder, ops, client, codec, calls, peer>>

RequestNext ==
    \/ RequestBody
    \/ RequestBuild
    \/ RequestSend

RequestSpec == RequestInit /\ [][RequestNext]_vars

\* ------------------------ the read loop on an ended stream: TerminationSpec
\* One exchange on the socket, with the loop's None arm as a position of its
\* own (pc = "none_arm"), and a peer that may close its end without sending
\* a zero-length frame: from then on framed.next() yields None.
TerminationStreams ==
    { <<ScgiHeaders>> \o HelloDoc,
      Prologue \o FaultResponseDoc(FaultStruct(2, "bad")),
      <<"garbage">> }

TerminationInit ==
    /\ Init
    /\ Transport(url) = "scgi"

\* UnixStream::connect succeeds
TerminationConnect ==
    /\ Connect
    /\ stream' \in TerminationStreams

\* the peer closes its end; what it has not sent is lost
PeerEnds ==
    /\ pc \in {"send", "read"}
    /\ peer = "open"
    /\ peer' = "ended"
    /\ stream' = <<>>
    /\ UNCHANGED <<url, pc, op, rtype, reads, resp, connects, sends, connOpen, sockPath,
                   httpReqs, contents, parses, outcome, mcOutcome, frames,
                   builder, ops, client, codec, calls, request>>

\* framed.next() yields None: the stream has ended
PollNone ==
    /\ pc = "read"
    /\ peer = "ended"
    /\ pc' = "none_arm"
    /\ UNCHANGED <<others, frames, url, op, rtype, stream, reads, resp, connects, sends,
                   connOpen, sockPath, httpReqs, contents, parses, outcome, mcOutcome>>

\* the None arm: count, log, and go round the loop
NoneArm ==
    /\ pc = "none_arm"
    /\ pc' = "read"
    /\ UNCHANGED <<others, frames, url, op, rtype, stream, reads, resp, connects, sends,
                   connOpen, sockPath, httpReqs, contents, parses, outcome, mcOutcome>>

TerminationNext ==
    \/ CallUnix
    \/ TerminationConnect
    \/ ConnectErr
    \/ Send
    \/ SendErr
    \/ (peer = "open" /\ ReadFrame)
    \/ (peer = "open" /\ ReadEnd)
    \/ (peer = "open" /\ ReadErr)
    \/ PeerEnds
    \/ PollNone
    \/ NoneArm

\* The task of the call is polled again whenever the stream has something
\* to report, so the loop takes its next step; and the peer does not keep
\* its end open for ever.
TerminationSpec ==
    /\ TerminationInit /\ [][TerminationNext]_vars
    /\ WF_vars(PollNone) /\ WF_vars(NoneArm) /\ WF_vars(PeerEnds)

\* ------------------------------------------------------------------ claims
\* the call has returned (or aborted)
Done == pc = "done"
\* response resolution ran in this call, on the text contents
ResolutionRan == parses # <<>>

\* C1: resolution tries the FaultResponse parse first; when that parse
\* succeeds the result is a Fault or a decode error and the MethodResponse
\* parse is not tried; the MethodResponse parse is tried exactly when the
\* FaultResponse parse has failed, and after it.
C1_FaultParseFirst ==
    ResolutionRan =>
        /\ parses[1] = "FaultResponse"
        /\ IF DeserializeFaultResponse(contents).ok
           THEN /\ parses = <<"FaultResponse">>
                /\ outcome.kind \in {"Fault", "RPC"}
                /\ outcome.kind = "RPC" => outcome.err \in {"MissingField", "WrongType"}
           ELSE parses = <<"FaultResponse", "MethodResponse">>

\* a text that both deserializers accept was resolved by the first alone
C1_Witness ==
    /\ Done
    /\ parses = <<"FaultResponse">>
    /\ DeserializeMethodResponse(contents).ok
    /\ outcome.kind = "Fault"

\* C2: every call that ends hands back a success value, a Fault, an RPC
\* error or a Net error; it never aborts.
C2_FourOutcomes == Done => outcome.kind \in {"Ok", "Fault", "RPC", "Net"}

\* C3: call hands back a Fault only when the response text it received
\* parsed as a FaultResponse, never when no response was obtained.
C3_FaultOnlyFromResponse ==
    outcome.kind = "Fault" => ResolutionRan /\ DeserializeFaultResponse(contents).ok

\* the members of a struct, as the fault conversion reads them
IsFaultStruct(v) ==
    /\ v.t = "struct"
    /\ HasMember(v.members, "faultCode") /\ GetMember(v.members, "faultCode").t = "i4"
    /\ HasMember(v.members, "faultString")
    /\ GetMember(v.members, "faultString").t = "string"

\* C4: when the response text of a completed exchange is a FaultResponse
\* with an integer faultCode and a string faultString, call hands back the
\* Fault with that code and message, whatever return type is expected.
C4_FaultPropagates ==
    (Done /\ ResolutionRan /\ DeserializeFaultResponse(contents).ok
          /\ IsFaultStruct(DeserializeFaultResponse(contents).strukt)) =>
        outcome = FaultOut(
            GetMember(DeserializeFaultResponse(contents).strukt.members, "faultCode").i,
            GetMember(DeserializeFaultResponse(contents).strukt.members, "faultString").s)

\* a fault answered on the socket to a caller that expects an integer
C4_Witness ==
    /\ Done /\ ResolutionRan
    /\ Transport(url) = "scgi"
    /\ rtype = "i32"
    /\ outcome = FaultOut(2, "bad")

\* C5: a text that parses neither as a FaultResponse nor as a
\* MethodResponse gives one invalid-data RPC error whose payload is that
\* text unchanged, and nothing of the two parse errors.
C5_InvalidDataCarriesText ==
    (Done /\ ResolutionRan /\ ~DeserializeFaultResponse(contents).ok
          /\ ~DeserializeMethodResponse(contents).ok) =>
        outcome = RpcOut("InvalidData", contents)

\* a cut-off document came back as the payload of the error
C5_Witness ==
    /\ Done /\ ResolutionRan
    /\ contents = SubSeq(HelloDoc, 1, Len(HelloDoc) - 3)
    /\ outcome.kind = "RPC" /\ outcome.text = contents

\* C6: the scheme alone selects the transport: "unix" uses the socket, at
\* the endpoint's path, and no HTTP request; any other scheme uses HTTP and
\* no socket; a call uses one transport, once.
C6_TransportByScheme ==
    /\ url.scheme = "unix" =>
          /\ httpReqs = 0
          /\ pc \notin {"http_execute", "http_text"}
          /\ connects > 0 => sockPath = url.path
    /\ url.scheme # "unix" =>
          /\ connects = 0 /\ sends = 0 /\ ~connOpen
          /\ pc \notin {"connect", "send", "read"}
    /\ connects + httpReqs <= 1

\* an https endpoint was served by one HTTP request
C6_Witness ==
    /\ Done
    /\ url.scheme = "https"
    /\ httpReqs = 1 /\ connects = 0
    /\ outcome.kind = "Ok"

\* C7: a step of the HTTP transport that fails (building the request,
\* executing it, reading the body) ends the call with a Net error naming
\* the cause, and resolution has not run.
C7_HttpFailureIsNet ==
    [][(CallHttpBuildErr \/ HttpExecuteErr \/ HttpTextErr) =>
          /\ pc' = "done"
          /\ outcome'.kind = "Net"
          /\ outcome'.err \in {"build", "execute", "text"}
          /\ parses' = <<>> /\ contents' = <<>>]_vars

\* the body of an executed request could not be read
C7_Witness ==
    /\ Done
    /\ httpReqs = 1
    /\ outcome = NetOut("text")
    /\ ~ResolutionRan

\* the shapes the multicall decoder looks for
MatchesSuccess(e) == e.t = "array" /\ Len(e.elems) = 1
MatchesFault(e) == IsFaultStruct(e)
Matches(e) == MatchesSuccess(e) \/ MatchesFault(e)
\* the indices of the matching elements of es
Matching(es) == { j \in 1..Len(es) : Matches(es[j]) }
\* the outcome a matching element stands for
OutcomeOf(e) ==
    IF MatchesSuccess(e) THEN Success(e.elems[1])
    ELSE Failure(GetMember(e.members, "faultCode").i,
                 GetMember(e.members, "faultString").s)
\* multicall ran its loop over the array its call handed back
McRan == Done /\ op = "multicall" /\ outcome.kind = "Ok"

\* C8 as stated: every element that matches neither shape, a struct that
\* lacks faultCode or faultString or has a faultCode that is no integer
\* included, is skipped without an error, and the others are returned.
C8_Original ==
    McRan =>
        /\ mcOutcome.kind = "Ok"
        /\ Len(mcOutcome.results) = Cardinality(Matching(outcome.value.elems))

\* C8 as amended: an element that is neither a struct nor an array of one
\* is skipped without an error; a struct that is no fault (faultCode or
\* faultString missing or of the wrong type) makes multicall hand back an
\* RPC error and no outcomes.
C8_SkipOrRefuse ==
    McRan =>
        IF \E j \in 1..Len(outcome.value.elems) :
               outcome.value.elems[j].t = "struct" /\ ~Matches(outcome.value.elems[j])
        THEN mcOutcome.kind = "RPC" /\ mcOutcome.results = <<>>
        ELSE /\ mcOutcome.kind = "Ok"
             /\ Len(mcOutcome.results) = Cardinality(Matching(outcome.value.elems))

\* a string element was skipped and the element after it decoded
C8_Witness ==
    /\ McRan
    /\ Len(outcome.value.elems) = 2
    /\ outcome.value.elems[1] = Str("skip me")
    /\ mcOutcome.kind = "Ok"
    /\ mcOutcome.results = <<Success(I4(42))>>

\* the j-th least member of the set S of indices
Nth(S, j) == CHOOSE m \in S : Cardinality({h \in S : h < m}) = j - 1

\* C9: the outcomes multicall hands back are, in order, the outcomes of
\* the matching elements of the array: one per matching element, none for
\* the others, never more than there are elements.
C9_OrderPreservingImage ==
    (McRan /\ mcOutcome.kind = "Ok") =>
        /\ Len(mcOutcome.results) = Cardinality(Matching(outcome.value.elems))
        /\ Len(mcOutcome.results) <= Len(outcome.value.elems)
        /\ \A j \in 1..Len(mcOutcome.results) :
              mcOutcome.results[j] =
                  OutcomeOf(outcome.value.elems[Nth(Matching(outcome.value.elems), j)])

\* a success followed by a fault with an extra member, decoded in order
C9_Witness ==
    /\ McRan
    /\ mcOutcome.kind = "Ok"
    /\ mcOutcome.results = <<Success(I4(42)), Failure(2, "worse")>>

\* C10: on the socket transport a call opens at most one connection, a
\* fresh one, sends at most one request on it, reads only after both, and
\* holds no open connection once it has ended, however it ended; a call
\* that reached the transport opened exactly one.
C10_OneConnectionOneRequest ==
    Transport(url) = "scgi" =>
        /\ connects <= 1 /\ sends <= 1
        /\ pc \in {"idle", "connect", "done"} => ~connOpen
        /\ pc \in {"send", "read"} => connOpen /\ connects = 1
        /\ pc = "read" => sends = 1
        /\ sends = 1 => connects = 1
        /\ (Done /\ (ResolutionRan \/ outcome.kind \in {"Fault", "Panic"})) => connects = 1

\* a read error ended the exchange: one connection, one request, closed
C10_Witness ==
    /\ Done
    /\ Transport(url) = "scgi"
    /\ outcome = ScgiFailure
    /\ connects = 1 /\ sends = 1 /\ reads > 0
    /\ ~connOpen

\* a client has been built from the builder
Built == client # NoClient
\* the builder methods of kind o called, as indices into ops
Called(o) == { j \in 1..Len(ops) : ops[j].op = o }
\* the greatest member of the non-empty set S of indices
Last(S) == CHOOSE m \in S : \A h \in S : h <= m

\* C14: the User-Agent header of a built client is the value passed to
\* user_agent() (to its last call) when the method was called on the
\* builder, and DEFAULT_USER_AGENT when it was never called, whatever
\* headers were added in between.
C14_UserAgentDefaultOrOverride ==
    Built =>
        Get(client.headers, USER_AGENT) =
            IF Called("user_agent") = {} THEN DEFAULT_USER_AGENT
            ELSE ops[Last(Called("user_agent"))].value

\* user_agent() was called and a User-Agent header added after it; the
\* client carries the value given to user_agent()
C14_Witness ==
    /\ Built
    /\ Len(ops) = 2
    /\ ops[1] = BuilderOp("user_agent", "", "my-agent")
    /\ ops[2] = BuilderOp("add_header", USER_AGENT, "curl/8")
    /\ Get(client.headers, USER_AGENT) = "my-agent"

\* C20: the Content-Type header of a built client is text/xml after every
\* sequence of builder methods.
C20_ContentTypeFixed == Built => Get(client.headers, CONTENT_TYPE) = "text/xml"

\* the text a scalar value is written as
ScalarText(v) ==
    CASE v.t = "i4" -> <<"<value>", "<i4>", IntToText(v.i), "</i4>", "</value>">>
      [] v.t = "boolean" ->
            <<"<value>", "<boolean>", IF v.b THEN "1" ELSE "0", "</boolean>", "</value>">>
      [] OTHER -> codec.xml

\* C12: decoding the encoding of a value gives the value back, with every
\* timestamp in it cut to whole seconds and every member and element in its
\* place, members of one name included; a 32-bit integer is written as i4
\* and a boolean as 1 or 0.
C12_RoundTrip ==
    /\ (codec.pc = "decoded" /\ ~codec.explicit) =>
          codec.back = [ok |-> TRUE, val |-> Truncated(codec.v)]
    /\ (codec.pc = "encoded" /\ ~codec.explicit) =>
          /\ codec.xml = ScalarText(codec.v)
          /\ \A j \in 1..Len(codec.xml) : codec.xml[j] # "<int>"

\* a struct with two members of one name, and a timestamp with a
\* sub-second part, came back from the codec
C12_Witness ==
    /\ codec.pc = "decoded" /\ ~codec.explicit
    /\ codec.back.ok
    /\ codec.v.t = "struct" /\ Len(codec.v.members) = 2
    /\ codec.v.members[1].name = codec.v.members[2].name
    /\ codec.v.members[2].value.t = "dateTime"
    /\ codec.back.val # codec.v
    /\ codec.back.val = Truncated(codec.v)

\* the value v has an empty struct or an empty array in it
RECURSIVE HasEmpty(_)
HasEmpty(v) ==
    CASE v.t = "struct" ->
            \/ v.members = <<>>
            \/ \E j \in 1..Len(v.members) : HasEmpty(v.members[j].value)
      [] v.t = "array" ->
            v.elems = <<>> \/ \E j \in 1..Len(v.elems) : HasEmpty(v.elems[j])
      [] OTHER -> FALSE

\* C13: an empty struct is written as <struct/> and an empty array as
\* <array><data/></array>; the decoder reads the self-closing form and the
\* form with a start and an end tag and no children as the same value.
C13_EmptyCollections ==
    /\ (codec.pc = "encoded" /\ ~codec.explicit /\ codec.v = Struct(<<>>)) =>
          codec.xml = <<"<value>", "<struct/>", "</value>">>
    /\ (codec.pc = "encoded" /\ ~codec.explicit /\ codec.v = Array(<<>>)) =>
          codec.xml = <<"<value>", "<array>", "<data/>", "</array>", "</value>">>
    /\ (codec.pc = "decoded" /\ HasEmpty(codec.v)) =>
          /\ codec.back.ok
          /\ codec.back = ParseValue(EncValue(codec.v))
          /\ codec.back.val = codec.v

\* <array><data></data></array> inside an array was read as the empty array
C13_Witness ==
    /\ codec.pc = "decoded"
    /\ codec.explicit
    /\ codec.v = Array(<<Array(<<>>)>>)
    /\ codec.xml = <<"<value>", "<array>", "<data>", "<value>", "<array>", "<data>",
                     "</data>", "</array>", "</value>", "</data>", "</array>", "</value>">>
    /\ codec.back = [ok |-> TRUE, val |-> codec.v]

\* the accumulator after the read loop has met the frames fs, in order,
\* starting from acc; a zero-length frame ends the loop
RECURSIVE FoldFrames(_, _)
FoldFrames(fs, acc) ==
    IF fs = <<>> \/ Head(fs) = <<>> THEN acc
    ELSE FoldFrames(Tail(fs), AccumulateFrame(acc, Head(fs)).resp)

\* the exchange runs on the socket
OnSocket == Transport(url) = "scgi"
\* this step of the read loop met a frame: the last of frames'
MetFrame == Len(frames') = Len(frames) + 1
\* this step was a read that yielded neither a frame nor an error
NotReady == pc = "read" /\ reads' = reads + 1 /\ frames' = frames
\* this step was a read that yielded an error
ReadFailed == pc = "read" /\ pc' = "done" /\ frames' = frames /\ reads' = reads

\* C15: the read loop hands the accumulated response to resolution exactly
\* when it has met a zero-length frame, which is the last frame it reads;
\* the response is what the frames before it gave in arrival order; a read
\* that is not ready leaves the exchange running and reads again.
C15_EndsAtZeroLengthFrame ==
    /\ [](OnSocket =>
            /\ ResolutionRan <=> (frames # <<>> /\ frames[Len(frames)] = <<>>)
            /\ \A j \in 1..(Len(frames) - 1) : frames[j] # <<>>
            /\ ResolutionRan => Done /\ contents = FoldFrames(frames, <<>>)
            /\ pc = "read" => resp = FoldFrames(frames, <<>>))
    /\ [][NotReady => pc' = "read" /\ outcome' = outcome /\ resp' = resp /\ connOpen']_vars

\* a read that was not ready, two frames, then the terminator: the call
\* succeeded on the text of the two frames
C15_Witness ==
    /\ Done /\ OnSocket
    /\ reads = 3
    /\ Len(frames) = 3
    /\ frames[3] = <<>>
    /\ Find(frames[2], Marker) > 0
    /\ outcome.kind = "Ok"

\* C16: a valid UTF-8 frame without the prologue marker leaves the
\* accumulator as it was, and the exchange goes on to the next frame.
C16_NoMarkerNoEffect ==
    [][(MetFrame /\ frames'[Len(frames')] # <<>>
          /\ FromUtf8Ok(frames'[Len(frames')])
          /\ Find(frames'[Len(frames')], Marker) = 0) =>
          (resp' = resp /\ pc' = "read" /\ outcome' = outcome)]_vars

\* C17: a UTF-8 frame that holds the marker adds to the accumulator its
\* text from the first marker to its end, however often the marker occurs.
C17_FromFirstMarkerToEnd ==
    [][(MetFrame /\ FromUtf8Ok(frames'[Len(frames')])
          /\ Find(frames'[Len(frames')], Marker) > 0) =>
          resp' = resp \o DropN(frames'[Len(frames')],
                                Find(frames'[Len(frames')], Marker) - 1)]_vars

\* C18: a read error ends the exchange at once: the call is over with an
\* error, no further frame is read, and the text accumulated so far has
\* not been, and is not later, handed to resolution.
C18_ReadErrorAborts ==
    /\ [][ReadFailed =>
            /\ outcome'.kind \in {"Fault", "RPC", "Net"}
            /\ parses' = <<>> /\ contents' = <<>>
            /\ ~connOpen' /\ stream' = <<>>]_vars
    /\ [][(Done /\ OnSocket /\ ~ResolutionRan) =>
            (frames' = frames /\ parses' = <<>>) \/ pc' = "idle"]_vars

\* a read error after part of the document had been accumulated
C18_Witness ==
    /\ Done /\ OnSocket
    /\ outcome = ScgiFailure
    /\ frames # <<>> /\ frames[Len(frames)] # <<>>
    /\ resp # <<>>
    /\ ~ResolutionRan /\ contents = <<>>

\* the frames of fs that are valid UTF-8
Utf8Frames(fs) == SelectSeq(fs, FromUtf8Ok)

\* C19: a non-empty frame that is not valid UTF-8 leaves the accumulator
\* as it was and the exchange running; the accumulator is what the other
\* frames alone would have given.
C19_NonUtf8Discarded ==
    /\ [][(MetFrame /\ ~FromUtf8Ok(frames'[Len(frames')])) =>
            (resp' = resp /\ pc' = "read" /\ outcome' = outcome /\ connOpen')]_vars
    /\ [](pc = "read" => resp = FoldFrames(Utf8Frames(frames), <<>>))

\* the document, then a frame of bytes that are not UTF-8, then the
\* terminator: the call succeeded on the document
C19_Witness ==
    /\ Done /\ OnSocket
    /\ Len(frames) = 3
    /\ frames[1] = HelloDoc
    /\ ~FromUtf8Ok(frames[2])
    /\ frames[3] = <<>>
    /\ outcome = OkOut(Str("Hello, DXR!"))

\* the sequence the frames fs make when put end to end
RECURSIVE Joined(_)
Joined(fs) == IF fs = <<>> THEN <<>> ELSE Head(fs) \o Joined(Tail(fs))

\* what a call that expects R hands back when it runs alone and its read
\* loop meets the frames fs and then ends
Alone(fs, R) ==
    IF fs = <<>> THEN ScgiFailure
    ELSE IF fs[Len(fs)] = <<>>
         THEN CallTail(FoldFrames(fs, <<>>), R).out
    ELSE IF AccumulateFrame(FoldFrames(SubSeq(fs, 1, Len(fs) - 1), <<>>),
                            fs[Len(fs)]).panic
         THEN PanicOut
         ELSE ScgiFailure

\* C11: calls that run concurrently on one client each have a connection
\* of their own and an accumulator of their own: under every interleaving
\* the frames a call met are the first bytes its own connection's peer
\* sent, its accumulator is what those frames give, its outcome is the one
\* it would hand back running alone on them; no step of a call changes the
\* client's endpoint or headers.
C11_CallsDoNotInterfere ==
    /\ [](\A i \in CallIds :
            LET c == calls.call[i] IN
            /\ c.conn # 0 =>
                  /\ \A j \in CallIds : j # i => calls.call[j].conn # c.conn
                  /\ StartsWith(calls.conns[c.conn].sent, Joined(c.frames))
                  /\ calls.conns[c.conn].path = url.path
            /\ c.pc = "read" => c.resp = FoldFrames(c.frames, <<>>)
            /\ c.pc = "done" => c.outcome = Alone(c.frames, c.rtype))
    /\ [][url' = url /\ client' = client]_vars

\* two calls were answered on their own connections, the second call on
\* the connection opened first: one got the value, the other the fault
C11_Witness ==
    /\ calls.call[1].pc = "done" /\ calls.call[2].pc = "done"
    /\ calls.call[1].conn = 2 /\ calls.call[2].conn = 1
    /\ calls.call[1].reads = 2 /\ calls.call[2].reads = 2
    /\ Len(calls.call[1].frames) = 2 /\ Len(calls.call[2].frames) = 2
    /\ calls.call[1].outcome = OkOut(Str("Hello, DXR!"))
    /\ calls.call[2].outcome = FaultOut(2, "bad")

\* the items of kind k written on the socket, in order
Items(k) == SelectSeq(request.wire, LAMBDA it : it.item = k)
\* the number a sequence of decimal digits stands for
RECURSIVE DecimalValue(_)
DecimalValue(ds) ==
    IF ds = <<>> THEN 0
    ELSE 10 * DecimalValue(SubSeq(ds, 1, Len(ds) - 1))
         + (CHOOSE d \in 0..9 : Digits[d + 1] = ds[Len(ds)])
\* the bytes of the text str, symbol by symbol
RECURSIVE BytesOfText(_)
BytesOfText(str) ==
    IF str = <<>> THEN 0
    ELSE (IF Head(str) = "\\u00E9" THEN 2
          ELSE IF Head(str) = "\\u20AC" THEN 3
          ELSE IF Head(str) = "\\U0001D11E" THEN 4
          ELSE CharsOf(Head(str))) + BytesOfText(Tail(str))

\* C21: the request written on the socket has the fields CONTENT_LENGTH,
\* SCGI = 1, REQUEST_METHOD = POST, REQUEST_URI in this order, then the
\* body; the body is the serialized call, and CONTENT_LENGTH is the decimal
\* number of the body bytes written, not of its characters.
C21_FieldsThenBody ==
    request.pc = "sent" =>
        /\ [j \in 1..Len(Items("name")) |-> Items("name")[j].v[1]]
              = <<"CONTENT_LENGTH", "SCGI", "REQUEST_METHOD", "REQUEST_URI">>
        /\ Items("value")[2].v = <<"1">>
        /\ Items("value")[3].v = <<"P", "O", "S", "T">>
        /\ Items("value")[4].v = <<"/", "R", "P", "C">>
        /\ \A j \in 1..Len(request.wire) :
              request.wire[j].item = "byte" <=> j > 8
        /\ DecimalValue(Items("value")[1].v) = Len(Items("byte"))
        /\ Len(Items("byte")) = BytesOfText(request_to_body(request.call))
        /\ [j \in 1..Len(Items("byte")) |-> Items("byte")[j].v[1]]
              = as_bytes(request_to_body(request.call))

\* a call whose parameter has characters of several bytes was sent: the
\* length given is greater than the number of characters
C21_Witness ==
    /\ request.pc = "sent"
    /\ request.call.params = << <<"5", "\\u20AC">>, <<"\\U0001D11E">> >>
    /\ DecimalValue(Items("value")[1].v) = chars_count(request.body) + 5

\* C22: an exchange that has reached the read loop returns to the caller,
\* whether the peer ends it with a zero-length frame, a read error occurs,
\* or the frame stream reports that it has ended.
C22_ExchangeReturns == (pc = "read") ~> (pc = "done")

\* the text a peer sends as one document after bytes that are no document
OneDocument(s) ==
    /\ FromUtf8Ok(s)
    /\ Len(Split(s, Marker)) = 2
    /\ (\/ DeserializeFaultResponse(DropN(s, Find(s, Marker) - 1)).ok
        \/ DeserializeMethodResponse(DropN(s, Find(s, Marker) - 1)).ok)
\* the frames met so far, the terminator left out
DataFrames == SelectSeq(frames, LAMBDA f : f # <<>>)

\* C23: when the peer sends one document, bytes that are no document
\* before it or not, in one or more non-empty frames and then a
\* zero-length frame, the exchange does not abort on any of the frames, and
\* the text handed to resolution is the document from its prologue to its
\* end, wherever the frames are cut.
C23_DocumentAcrossFrames ==
    (OnSocket /\ frames # <<>>) =>
        \A s \in SocketStreams :
            (OneDocument(s) /\ StartsWith(s, Joined(DataFrames))) =>
                /\ outcome.kind # "Panic"
                /\ (Joined(DataFrames) = s /\ frames[Len(frames)] = <<>>) =>
                      /\ ResolutionRan
                      /\ contents = DropN(s, Find(s, Marker) - 1)
====
